---- MODULE Spec2Model ----
(***************************************************************************)
(* PixelPunk: the asynchronous AI tagging queue.                           *)
(*                                                                         *)
(* Modelled from internal/services/ai (global_queue.go and                 *)
(* tagging_helper.go, kept under src/unnamed/part_007) and from            *)
(* internal/services/file/upload_service.go.  The TaggingService type      *)
(* itself (task queue, worker pool, Pause/Resume/Stop/UpdateConcurrency,   *)
(* EnqueueAllPending, ResetStuckPendingFiles, ProcessSingleFile,           *)
(* BatchProcessFiles) is not part of src/ and follows spec.md 4.1-4.4.     *)
(***************************************************************************)
EXTENDS Integers, Sequences, FiniteSets, TLC

\* ---- bounds --------------------------------------------------------------
NumFiles == 2          \* files in the file table
NumCallers == 2        \* concurrent callers of AddFileToQueue
MaxSvc == 2            \* TaggingService instances ever constructed
QueueCap == 1          \* capacity of the in-memory task queue
MaxConcurrency == 2    \* largest value of the ai_concurrency setting
TriesThreshold == 2    \* configured failure threshold of ai_tagging_tries
MaxTries == 2          \* cap of the ai_tagging_tries counter
MaxSweeps == 1         \* cap of "go EnqueueAllPending" goroutines not yet run
MaxLogs == 2           \* cap of the review log rows of one file

Files == 1..NumFiles
Callers == 1..NumCallers
Svcs == 1..MaxSvc

VARIABLES
  status,        \* file.ai_tagging_status
  tries,         \* file.ai_tagging_tries
  stale,         \* file.ai_last_heartbeat_at is older than the stuck threshold
  original,      \* file.original_file_id (0: not a duplicate)
  providerCalled,\* an AI provider call has been made for the duplicate file
  propagate,     \* a "go propagateAIToDuplicates(id)" goroutine is pending
  aiEnabled,     \* setting ai.ai_enabled
  autoProcessing,\* setting ai.ai_auto_processing_enabled
  aiConcurrency, \* setting ai.ai_concurrency
  globalTaggingService, \* the global pointer (0: nil)
  created,       \* number of TaggingService instances constructed so far
  paused,        \* per instance: paused flag
  stopped,       \* per instance: Stop() has been called
  concurrency,   \* per instance: permit count of the worker pool
  queue,         \* per instance: queued file ids of the task queue
  inflight,      \* per instance: in-flight set (ids a worker is executing)
  cpc,           \* per caller: position inside AddFileToQueue
  cfile,         \* per caller: the file argument
  csvc,          \* per caller: the local variable svc
  startup,       \* per Init call: position of its startup goroutine
  affectedIDs,   \* per Init call: local affectedIDs of RecoverPendingOnStartup
  sweeps,        \* number of "go EnqueueAllPending" goroutines not yet run
  aiScanTimer,   \* the debounce timer of handleAIConfigChange is armed
  heldBack,      \* history: ids AddFileToQueue has queued while the service
                 \* was paused, until the next Resume or Stop
  fileState,     \* file.status (active, pending_review, pending_deletion)
  reviewReason,  \* the reason stored with a file marked for review
  nsfw,          \* file.nsfw
  aiInfo,        \* per file: its file_ai_info rows
  tagRel,        \* per file: its file_global_tag_relation rows (tag ids)
  dbOpen,        \* the database connection is open (database.Close not yet called)
  reusing,       \* the duplicates whose upload-time reuse goroutine has not run yet
  reviewLog,     \* per file: the actions of its review_log rows, oldest first
  hardDeleting,  \* the files whose hard-deletion goroutine has not run yet
  response       \* the file request being answered and what the middleware chain did with it

jobVars == <<status, tries, stale, original, providerCalled, propagate>>
setVars == <<aiEnabled, autoProcessing, aiConcurrency>>
svcVars == <<globalTaggingService, created, paused, stopped, concurrency>>
tqVars == <<queue, inflight>>
callVars == <<cpc, cfile, csvc, heldBack>>
goVars == <<startup, affectedIDs, sweeps, aiScanTimer>>
rowVars == <<fileState, reviewReason, nsfw, aiInfo, tagRel>>
appVars == <<dbOpen, reusing, reviewLog, hardDeleting, response>>

\* no file request is being answered
NoResponse == [file |-> 0]
vars == <<jobVars, setVars, svcVars, tqVars, callVars, goVars, rowVars, appVars>>

\* ---- the task queue (spec.md 4.2) ------------------------------------------
InQueue(q, id) == \E i \in 1..Len(q) : q[i] = id

Occurrences(q, id) == Cardinality({i \in 1..Len(q) : q[i] = id})

\* outcome of EnqueueUnique: "ok" pushed, "dup" silently ignored,
\* "full" and "closed" are errors
EnqueueResult(q, infl, stop, id) ==
  IF stop THEN "closed"
  ELSE IF InQueue(q, id) \/ id \in infl THEN "dup"
  ELSE IF Len(q) >= QueueCap THEN "full"
  ELSE "ok"

EnqueueUniqueNoDedup(q, infl, stop, id) ==
  IF ~stop /\ Len(q) < QueueCap THEN Append(q, id) ELSE q

EnqueueUnique(q, infl, stop, id) ==
  IF EnqueueResult(q, infl, stop, id) = "ok" THEN Append(q, id) ELSE q

MinOf(S) == CHOOSE m \in S : \A x \in S : m <= x

\* EnqueueUnique of every id of S, in ascending id order
RECURSIVE EnqueueEach(_, _, _, _)
EnqueueEach(q, infl, stop, S) ==
  IF S = {} THEN q
  ELSE EnqueueEach(EnqueueUnique(q, infl, stop, MinOf(S)), infl, stop, S \ {MinOf(S)})

PendingFiles(st) == {f \in Files : st[f] = "pending"}

IncTries(t) == IF t < MaxTries THEN t + 1 ELSE t


\* ---- the executor -----------------------------------------------------------
\* updateFileStatus: tries is incremented together with the write of "failed"
updateFileStatusTries(t, f, st) ==
  IF st = "failed" THEN [t EXCEPT ![f] = IncTries(t[f])] ELSE t

HasDuplicates(o) == \E d \in Files : original[d] = o

\* the outcomes of one run of the executor
\*   "off":    upload.ai_analysis_enabled is false: skipped, no provider call
\*   "perr":   performAIImageCategorizationOutsideTx / performAITagging
\*             failed: skipped, the executor returns nil
\*   "dberr":  the file row cannot be read: the error is returned
\*   "reject": processAIResponse, unsuccessful response recognised as an NSFW
\*             rejection: done
\*   "bad":    processAIResponse, unsuccessful or unparseable response:
\*             updateFileStatus(failed); the error is only logged
\*   "ok":     processAIResponse saved the results: done, go
\*             propagateAIToDuplicates
\* after processAIResponse the executor writes done and returns nil
Outcomes == {"off", "perr", "dberr", "reject", "bad", "ok"}

\* ai_tagging_status after one run of the executor for file f
ExecutorStatus(f, out) ==
  CASE out \in {"off", "perr"} -> [status EXCEPT ![f] = "skipped"]
    [] out = "dberr" -> status
    [] OTHER -> [status EXCEPT ![f] = "done"]

\* ai_tagging_tries after a run that counts an NSFW rejection as a failure
ExecutorTriesOnReject(f, out) ==
  IF out \in {"bad", "reject"} THEN updateFileStatusTries(tries, f, "failed")
  ELSE tries

\* ai_tagging_tries after one run of the executor for file f
ExecutorTries(f, out) ==
  IF out = "bad" THEN updateFileStatusTries(tries, f, "failed") ELSE tries

\* what the executor returns: an error only when the database fails it; the
\* error of processAIResponse is logged and dropped
ExecutorReturn(out) == IF out = "dberr" THEN "error" ELSE "nil"

\* the provider is called unless analysis is off; the call is recorded for
\* duplicates
ExecutorProviderCalled(f, out) ==
  IF out = "off" \/ original[f] = 0 THEN providerCalled
  ELSE [providerCalled EXCEPT ![f] = TRUE]

\* one run of the executor for file f from the provider call to its return
AiImageTaggingAndSaveWithBase64(f, out) ==
  /\ out \in Outcomes
  /\ out \in {"bad", "dberr"} => tries[f] < MaxTries
  /\ status' = ExecutorStatus(f, out)
  /\ tries' = ExecutorTries(f, out)
  /\ providerCalled' = ExecutorProviderCalled(f, out)
  /\ propagate' = IF out = "ok" /\ HasDuplicates(f)
                  THEN [propagate EXCEPT ![f] = TRUE] ELSE propagate
  /\ UNCHANGED <<stale, original>>

\* ---- the executor's rows ------------------------------------------------------
\* upload.sensitive_content_handling; every value other than auto_delete and
\* pending_review is handled as mark_only
Modes == {"mark_only", "auto_delete", "pending_review"}

\* ContentSafety.NSFWScore and the nsfw_threshold setting, in tenths
Scores == {3, 9}
Thresholds == {6}

\* the tag ids CreateTagsFromNames returns for the tags of a response
TagLists == {<<>>, <<1, 2>>}

\* what performAITagging hands to processAIResponse:
\*   "perr":         performAITagging returned an error
\*   "unsuccessful": Success is false, no NSFW rejection
\*   "rejection":    Success is false, isNSFWRejection holds; reason is ErrMsg
\*   "malformed":    Success is true, Data cannot be parsed
\*   "result":       Success is true, Data holds an AITaggingResult
Responses ==
  [kind : {"perr", "unsuccessful", "malformed"}, isNSFW : {FALSE},
   score : {3}, tags : {<<>>}, reason : {"none"}]
  \cup [kind : {"rejection"}, isNSFW : {FALSE},
        score : {3}, tags : {<<>>}, reason : {"refused"}]
  \cup [kind : {"result"}, isNSFW : BOOLEAN,
        score : Scores, tags : TagLists, reason : {"explicit"}]

\* parseAITaggingResult: the ContentSafety part of the AITaggingResult in Data
parseAITaggingResult(resp) ==
  [isNSFW |-> resp.isNSFW, score |-> resp.score, reason |-> resp.reason]

\* the outcome class of a run: ana is upload.ai_analysis_enabled, detect is
\* upload.content_detection_enabled
OutcomeOf(ana, resp, detect) ==
  CASE ~ana -> "off"
    [] resp.kind = "perr" -> "perr"
    [] resp.kind = "rejection" /\ detect -> "reject"
    [] resp.kind \in {"unsuccessful", "rejection", "malformed"} -> "bad"
    [] OTHER -> "ok"

\* saveFileAIInfo without the conflict clause: a plain insert
saveFileAIInfoInsert(rows, row) == Append(rows, row)

\* saveFileAIInfo: UPSERT on file_id
saveFileAIInfo(rows, row) ==
  IF rows = <<>> THEN <<row>> ELSE [rows EXCEPT ![1] = row]

\* ReplaceFileTagsTx: the file's "ai" relations become exactly tagIDs
ReplaceFileTagsTx(rel, tagIDs) == tagIDs

\* processAndSaveTags: nothing is written for an empty tag list
processAndSaveTags(rel, tagIDs) ==
  IF tagIDs = <<>> THEN rel ELSE ReplaceFileTagsTx(rel, tagIDs)

\* the rows of file f: its file record's columns, AI info and tag relations
Row(f) ==
  [fileState |-> fileState[f], reviewReason |-> reviewReason[f],
   nsfw |-> nsfw[f], aiInfo |-> aiInfo[f], tagRel |-> tagRel[f]]

markFileForDeletion(r) == [r EXCEPT !.fileState = "pending_deletion"]

markFileForReview(r, reason) ==
  [r EXCEPT !.fileState = "pending_review", !.reviewReason = reason]

\* updateFileNSFWStatus that writes nothing
updateFileNSFWStatusKeep(r, v) == r

updateFileNSFWStatus(r, v) == [r EXCEPT !.nsfw = v]

\* the branches of processAIResponse that apply sensitive_content_handling:
\* content detection is on and the response is an NSFW rejection or a result
\* with ContentSafety.IsNSFW
PolicyApplies(resp, detect) ==
  /\ detect
  /\ \/ resp.kind = "rejection"
     \/ resp.kind = "result" /\ resp.isNSFW

\* processAIResponse, unsuccessful response recognised as an NSFW rejection
RejectionRows(r, resp, mode) ==
  CASE mode = "auto_delete" -> markFileForDeletion(r)
    [] mode = "pending_review" ->
         markFileForReview(updateFileNSFWStatus(r, TRUE), resp.reason)
    [] OTHER -> updateFileNSFWStatus(r, TRUE)

\* a handling of the parsed result that applies the policy without asking
\* whether content detection is enabled
ResultRowsDetecting(r, resp, detect, mode) ==
  LET result == parseAITaggingResult(resp)
      saved == [r EXCEPT !.aiInfo = saveFileAIInfo(@, result)]
      tagged == [saved EXCEPT !.tagRel = processAndSaveTags(@, resp.tags)]
      handled ==
        CASE ~result.isNSFW -> tagged
          [] mode = "auto_delete" -> markFileForDeletion(saved)
          [] mode = "pending_review" -> markFileForReview(tagged, result.reason)
          [] OTHER -> tagged
  IN IF result.isNSFW THEN updateFileNSFWStatus(handled, TRUE) ELSE handled

\* processAIResponse, parsed result: the AI info is saved, then the tags are
\* saved or the file is marked as the handling says, then the nsfw column is
\* set
ResultRows(r, resp, detect, mode) ==
  LET result == parseAITaggingResult(resp)
      saved == [r EXCEPT !.aiInfo = saveFileAIInfo(@, result)]
      tagged == [saved EXCEPT !.tagRel = processAndSaveTags(@, resp.tags)]
      handled ==
        CASE ~detect \/ ~result.isNSFW -> tagged
          [] mode = "auto_delete" -> markFileForDeletion(saved)
          [] mode = "pending_review" -> markFileForReview(tagged, result.reason)
          [] OTHER -> tagged
  IN IF detect /\ result.isNSFW THEN updateFileNSFWStatus(handled, TRUE)
     ELSE handled

\* the rows of a file after processAIResponse
RowsAfter(r, resp, detect, mode) ==
  CASE resp.kind = "result" -> ResultRows(r, resp, detect, mode)
    [] resp.kind = "rejection" /\ detect -> RejectionRows(r, resp, mode)
    [] OTHER -> r

\* processAIResponse: the rows written for file f
processAIResponse(f, resp, detect, mode) ==
  LET r == RowsAfter(Row(f), resp, detect, mode)
  IN /\ fileState' = [fileState EXCEPT ![f] = r.fileState]
     /\ reviewReason' = [reviewReason EXCEPT ![f] = r.reviewReason]
     /\ nsfw' = [nsfw EXCEPT ![f] = r.nsfw]
     /\ aiInfo' = [aiInfo EXCEPT ![f] = r.aiInfo]
     /\ tagRel' = [tagRel EXCEPT ![f] = r.tagRel]

\* one run of the executor for file f with its settings and the provider's
\* response: the job columns and the rows
ExecutorRun(f, ana, resp, detect, mode) ==
  /\ AiImageTaggingAndSaveWithBase64(f, OutcomeOf(ana, resp, detect))
  /\ IF ana /\ resp.kind # "perr"
     THEN processAIResponse(f, resp, detect, mode)
     ELSE UNCHANGED rowVars
  /\ UNCHANGED <<setVars, svcVars, tqVars, callVars, goVars, appVars>>

\* the duplicates propagateAIToDuplicates finds: files of this original that
\* are not pending deletion
Dups(o) == {d \in Files : original[d] = o /\ fileState[d] # "pending_deletion"}

\* a propagation that reports its end on the original's job
propagateAIToDuplicatesReporting(o) ==
  /\ propagate[o]
  /\ propagate' = [propagate EXCEPT ![o] = FALSE]
  /\ status' = [f \in Files |-> IF f \in Dups(o) THEN "done"
                                ELSE IF f = o /\ Dups(o) = {} THEN "failed"
                                ELSE status[f]]
  /\ aiInfo' = [f \in Files |->
                  IF f \in Dups(o) /\ aiInfo[o] # <<>>
                  THEN saveFileAIInfo(aiInfo[f], aiInfo[o][1]) ELSE aiInfo[f]]
  /\ tagRel' = [f \in Files |->
                  IF f \in Dups(o) /\ tagRel[f] = <<>> THEN tagRel[o] ELSE tagRel[f]]
  /\ UNCHANGED <<tries, stale, original, providerCalled>>
  /\ UNCHANGED <<fileState, reviewReason, nsfw>>
  /\ UNCHANGED <<setVars, svcVars, tqVars, callVars, goVars, appVars>>

\* propagateAIToDuplicates: every duplicate found gets the original's AI info
\* by UPSERT when the original has one, the original's tag relations when it
\* has none of its own, and is written done
propagateAIToDuplicates(o) ==
  /\ propagate[o]
  /\ propagate' = [propagate EXCEPT ![o] = FALSE]
  /\ status' = [f \in Files |-> IF f \in Dups(o) THEN "done" ELSE status[f]]
  /\ aiInfo' = [f \in Files |->
                  IF f \in Dups(o) /\ aiInfo[o] # <<>>
                  THEN saveFileAIInfo(aiInfo[f], aiInfo[o][1]) ELSE aiInfo[f]]
  /\ tagRel' = [f \in Files |->
                  IF f \in Dups(o) /\ tagRel[f] = <<>> THEN tagRel[o] ELSE tagRel[f]]
  /\ UNCHANGED <<tries, stale, original, providerCalled>>
  /\ UNCHANGED <<fileState, reviewReason, nsfw>>
  /\ UNCHANGED <<setVars, svcVars, tqVars, callVars, goVars, appVars>>

\* reuseAnalysisAndVectorForDuplicate, the goroutine saveFileData starts for
\* an uploaded duplicate d: the original's AI info replaces the one of d
\* (delete, then create), every tag relation of the original is created
\* again for d, whatever d already has
reuseAnalysisAndVectorForDuplicate(d) ==
  /\ d \in reusing
  /\ reusing' = reusing \ {d}
  /\ LET o == original[d]
     IN /\ aiInfo' = [aiInfo EXCEPT ![d] = IF aiInfo[o] # <<>>
                                            THEN <<aiInfo[o][1]>> ELSE @]
        /\ tagRel' = [tagRel EXCEPT ![d] = @ \o tagRel[o]]
  /\ UNCHANGED <<fileState, reviewReason, nsfw, dbOpen, reviewLog, hardDeleting, response>>
  /\ UNCHANGED <<jobVars, setVars, svcVars, tqVars, callVars, goVars>>

\* ---- the review actions (package review) --------------------------------------
\* ApproveFileWithLog, RejectFileWithLog (soft and hard) and
\* RestoreSoftDeletedFile: the status each looks for, the status it writes,
\* and the action of its review log
ReviewActs == {"approve", "reject_soft", "reject_hard", "restore"}

Expects(act) == IF act = "restore" THEN "deleted" ELSE "pending_review"

Writes(act) ==
  CASE act = "approve" -> "active"
    [] act = "reject_soft" -> "deleted"
    [] act = "reject_hard" -> "pending_deletion"
    [] OTHER -> "pending_review"

LogAction(act) == IF act \in {"approve", "restore"} THEN "approve" ELSE "reject"

\* the transaction of a review action opens and reads the file by id and
\* expected status; without a row the call returns its error
ReviewBegin(c, f, act) ==
  /\ cpc[c] = "idle"
  /\ Len(reviewLog[f]) < MaxLogs
  /\ cfile' = [cfile EXCEPT ![c] = f]
  /\ cpc' = [cpc EXCEPT ![c] = IF fileState[f] = Expects(act) THEN act ELSE "tx_failed"]
  /\ UNCHANGED <<jobVars, setVars, svcVars, tqVars, goVars, csvc, heldBack>>
  /\ UNCHANGED rowVars
  /\ UNCHANGED appVars

\* the file's columns after the update of a review action: the approve update
\* is conditional on the status, the others are by id only; a file record
\* that is gone is not updated
ReviewUpdate(act, st, flag) ==
  IF st = "removed" \/ (act = "approve" /\ st # "pending_review")
  THEN [fileState |-> st, nsfw |-> flag]
  ELSE [fileState |-> Writes(act), nsfw |-> IF act = "approve" THEN FALSE ELSE flag]

\* the rest of the transaction: the review log is created, the file is
\* updated, the transaction commits and the call returns nil; a hard reject
\* starts the hard-deletion goroutine
ReviewCommit(c) ==
  /\ cpc[c] \in ReviewActs
  /\ LET f == cfile[c]
         act == cpc[c]
         u == ReviewUpdate(act, fileState[f], nsfw[f])
     IN /\ reviewLog' = [reviewLog EXCEPT ![f] = Append(@, LogAction(act))]
        /\ fileState' = [fileState EXCEPT ![f] = u.fileState]
        /\ nsfw' = [nsfw EXCEPT ![f] = u.nsfw]
        /\ hardDeleting' = IF act = "reject_hard" THEN hardDeleting \cup {f}
                           ELSE hardDeleting
  /\ cpc' = [cpc EXCEPT ![c] = "idle"]
  /\ cfile' = [cfile EXCEPT ![c] = 0]
  /\ UNCHANGED <<jobVars, setVars, svcVars, tqVars, goVars, csvc, heldBack>>
  /\ UNCHANGED <<reviewReason, aiInfo, tagRel, dbOpen, reusing, response>>

\* a statement of the transaction fails (lock conflict, database error): the
\* transaction is rolled back and the call returns the error
ReviewRollback(c) ==
  /\ cpc[c] \in ReviewActs
  /\ cpc' = [cpc EXCEPT ![c] = "tx_failed"]
  /\ UNCHANGED <<jobVars, setVars, svcVars, tqVars, goVars, cfile, csvc, heldBack>>
  /\ UNCHANGED rowVars
  /\ UNCHANGED appVars

\* the failed call has returned its error
ReviewReturn(c) ==
  /\ cpc[c] = "tx_failed"
  /\ cpc' = [cpc EXCEPT ![c] = "idle"]
  /\ cfile' = [cfile EXCEPT ![c] = 0]
  /\ UNCHANGED <<jobVars, setVars, svcVars, tqVars, goVars, csvc, heldBack>>
  /\ UNCHANGED rowVars
  /\ UNCHANGED appVars

\* executeFileHardDeletion: the AI info, the tag relations and the file
\* record are deleted
executeFileHardDeletion(f) ==
  /\ f \in hardDeleting
  /\ hardDeleting' = hardDeleting \ {f}
  /\ aiInfo' = [aiInfo EXCEPT ![f] = <<>>]
  /\ tagRel' = [tagRel EXCEPT ![f] = <<>>]
  /\ fileState' = [fileState EXCEPT ![f] = "removed"]
  /\ UNCHANGED <<jobVars, setVars, svcVars, tqVars, callVars, goVars>>
  /\ UNCHANGED <<reviewReason, nsfw, dbOpen, reusing, reviewLog, response>>

\* ---- the file-access middleware chain (package middleware) -------------------
\* a file request, by what the middleware reads from it:
\*   admin      isAdminRequest: signed URL or admin bearer token
\*   internal   isFromConfiguredBaseUrl
\*   level      the file's AccessLevel
\*   share      the "share" query parameter is not empty
\*   token      the "access_token" query parameter is not empty
\*   tokenOk    share.ValidateAccessToken accepts the token
\*   shareOk    verifyShareAccess accepts the share key for the file
\*   allowed    handleUserAccessControl lets the request pass
\*   owner      CanUserAccessProtectedFile (internal) or
\*              tryAuthenticateFromCookie (external) recognises the owner
Requests ==
  [admin : BOOLEAN, internal : BOOLEAN,
   level : {"public", "protected", "private", "other"},
   share : BOOLEAN, token : BOOLEAN, tokenOk : BOOLEAN, shareOk : BOOLEAN,
   allowed : BOOLEAN, owner : BOOLEAN]

\* what is sent for a file that passed the access checks: the placeholder of
\* files under review, or the next handler's file
ReviewOrFile(st) == IF st = "pending_review" THEN "review" ELSE "file"

handlePrivateAccess(st) == ReviewOrFile(st)

handleProtectedAccess(req, st) ==
  IF req.owner THEN ReviewOrFile(st) ELSE "unauthorized"

handleFileAccessLevel(req, st) ==
  CASE req.level = "public" -> ReviewOrFile(st)
    [] req.level = "protected" -> handleProtectedAccess(req, st)
    [] req.level = "private" -> handlePrivateAccess(st)
    [] OTHER -> "unauthorized"

\* FileAccessControlMiddleware: "file" is c.Next(), anything else is the
\* default file served in its place
FileAccessControlMiddleware(req, st) ==
  CASE req.admin -> "file"
    [] req.internal /\ req.level \in {"public", "private"} -> ReviewOrFile(st)
    [] req.share /\ req.token ->
         IF req.tokenOk THEN "file" ELSE "unauthorized"
    [] req.share ->
         IF req.shareOk THEN "file" ELSE "unauthorized"
    [] ~req.allowed -> "blocked"
    [] OTHER -> handleFileAccessLevel(req, st)

\* FileInfoExtractorMiddleware, then the access control: a file record that
\* is gone or pending deletion is answered with the not-found file
ServeRequest(f, req) ==
  /\ response = NoResponse
  /\ response' =
       [file |-> f, req |-> req,
        out |-> IF fileState[f] \in {"removed", "pending_deletion"}
                THEN "notfound"
                ELSE FileAccessControlMiddleware(req, fileState[f])]
  /\ UNCHANGED <<jobVars, setVars, svcVars, tqVars, callVars, goVars>>
  /\ UNCHANGED rowVars
  /\ UNCHANGED <<dbOpen, reusing, reviewLog, hardDeleting>>

\* the answer has been written and the request is over
SendResponse ==
  /\ response # NoResponse
  /\ response' = NoResponse
  /\ UNCHANGED <<jobVars, setVars, svcVars, tqVars, callVars, goVars>>
  /\ UNCHANGED rowVars
  /\ UNCHANGED <<dbOpen, reusing, reviewLog, hardDeleting>>

\* ---- the queue service (spec.md 4.3, 4.4) ------------------------------------
\* EnqueueAllPending: every pending file is handed to EnqueueUnique of the
\* global service; without a service nothing happens
EnqueueAllPending(g, st, qs) ==
  IF g = 0 THEN qs
  ELSE [qs EXCEPT ![g] = EnqueueEach(qs[g], inflight[g], stopped[g], PendingFiles(st))]

\* FindStuck that does not look at the heartbeat
FindStuckAnyAge == {f \in Files : status[f] \in {"processing", "pending"}}

\* FindStuck: processing or pending jobs with a stale heartbeat
FindStuck == {f \in Files : status[f] \in {"processing", "pending"} /\ stale[f]}

\* ResetStuckPendingFiles (FindStuck + ResetToPending): the status after it
ResetStuckPendingFiles == [f \in Files |-> IF f \in FindStuck THEN "pending" ELSE status[f]]

\* the permit check of a worker pickup
HasPermitUnbounded(s) == TRUE

HasPermit(s) == Cardinality(inflight[s]) < concurrency[s]

\* a pickup that writes processing without touching the heartbeat
WorkerPickupNoHeartbeat(s) ==
  /\ s <= created /\ ~stopped[s] /\ ~paused[s]
  /\ queue[s] # <<>>
  /\ HasPermit(s)
  /\ LET f == Head(queue[s])
     IN /\ queue' = [queue EXCEPT ![s] = Tail(queue[s])]
        /\ inflight' = [inflight EXCEPT ![s] = inflight[s] \cup {f}]
        /\ status' = [status EXCEPT ![f] = "processing"]
  /\ UNCHANGED <<tries, stale, original, providerCalled, propagate>>
  /\ UNCHANGED <<setVars, svcVars, callVars, goVars>>
  /\ UNCHANGED rowVars
  /\ UNCHANGED appVars

\* a worker of instance s pops the next id, claims the job (processing with
\* a fresh heartbeat) and starts the executor
WorkerPickup(s) ==
  /\ s <= created /\ ~stopped[s] /\ ~paused[s]
  /\ queue[s] # <<>>
  /\ HasPermit(s)
  /\ LET f == Head(queue[s])
     IN /\ queue' = [queue EXCEPT ![s] = Tail(queue[s])]
        /\ inflight' = [inflight EXCEPT ![s] = inflight[s] \cup {f}]
        /\ status' = [status EXCEPT ![f] = "processing"]
        /\ stale' = [stale EXCEPT ![f] = FALSE]
  /\ UNCHANGED <<tries, original, providerCalled, propagate>>
  /\ UNCHANGED <<setVars, svcVars, callVars, goVars>>
  /\ UNCHANGED rowVars
  /\ UNCHANGED appVars

\* the job is put back after an error when tries is below the threshold
ShouldRequeue(t) == t < TriesThreshold

\* the worker of instance s that holds file f runs the executor with outcome
\* out and handles its return: the task leaves the in-flight set; on an error
\* tries is incremented with status failed, and below the threshold the job
\* is put back (pending) if the queue accepts it
WorkerExecute(s, f, out) ==
  /\ f \in inflight[s]
  /\ inflight' = [inflight EXCEPT ![s] = inflight[s] \ {f}]
  /\ IF out = "dberr"
     THEN LET t == IncTries(tries[f])
              r == EnqueueResult(queue[s], inflight[s] \ {f}, stopped[s], f)
              requeue == ShouldRequeue(t) /\ r \in {"ok", "dup"}
          IN /\ tries[f] < MaxTries
             /\ tries' = [tries EXCEPT ![f] = t]
             /\ status' = [status EXCEPT ![f] = IF requeue THEN "pending" ELSE "failed"]
             /\ queue' = IF ShouldRequeue(t)
                         THEN [queue EXCEPT ![s] = EnqueueUnique(queue[s], inflight[s] \ {f}, stopped[s], f)]
                         ELSE queue
             /\ providerCalled' = ExecutorProviderCalled(f, out)
             /\ UNCHANGED <<stale, original, propagate>>
     ELSE /\ AiImageTaggingAndSaveWithBase64(f, out)
          /\ UNCHANGED queue
  /\ UNCHANGED <<setVars, svcVars, callVars, goVars>>
  /\ UNCHANGED rowVars
  /\ UNCHANGED appVars

\* NewTaggingServiceWithConfig + SetGlobalTaggingService + Pause when
\* auto processing is off + the startup goroutine, when en (ai_enabled) holds
\* and there is no service; nothing otherwise.  auto is the value of
\* ai_auto_processing_enabled that is read.
InitGlobalTaggingQueue(en, auto) ==
  IF globalTaggingService = 0 /\ en
  THEN /\ created < MaxSvc
       /\ concurrency' = [concurrency EXCEPT ![created + 1] =
                             IF aiConcurrency > 0 THEN aiConcurrency ELSE MaxConcurrency]
       /\ created' = created + 1
       /\ globalTaggingService' = created + 1
       /\ paused' = [paused EXCEPT ![created + 1] = ~auto]
       /\ startup' = [startup EXCEPT ![created + 1] = "recover"]
       /\ UNCHANGED stopped
  ELSE UNCHANGED <<svcVars, startup>>

\* ---- AddFileToQueue ----------------------------------------------------------
\* entry: GetGlobalTaggingService, InitGlobalTaggingQueue when it is nil, the
\* return of nil when there is still no service, else the update of
\* ai_tagging_status = pending and ai_last_heartbeat_at = now
AddFileToQueue(c, f) ==
  /\ cpc[c] = "idle"
  /\ InitGlobalTaggingQueue(aiEnabled, autoProcessing)
  /\ cfile' = [cfile EXCEPT ![c] = f]
  /\ csvc' = [csvc EXCEPT ![c] = globalTaggingService']
  /\ IF globalTaggingService' = 0
     THEN /\ cpc' = [cpc EXCEPT ![c] = "ret_disabled"]
          /\ UNCHANGED <<status, stale>>
     ELSE /\ cpc' = [cpc EXCEPT ![c] = "enqueue"]
          /\ status' = [status EXCEPT ![f] = "pending"]
          /\ stale' = [stale EXCEPT ![f] = FALSE]
  /\ UNCHANGED <<tries, original, providerCalled, propagate>>
  /\ UNCHANGED <<setVars, tqVars, affectedIDs, sweeps, aiScanTimer, heldBack>>
  /\ UNCHANGED rowVars
  /\ UNCHANGED appVars

\* after an error of EnqueueUnique: always return nil without running
AfterEnqueueErrorDrop(isPaused) == "idle"

\* after an error of EnqueueUnique: always run the file
AfterEnqueueErrorRun(isPaused) == "call"

\* after an error of EnqueueUnique: return nil when paused, else
\* svc.ProcessSingleFile(file)
AfterEnqueueError(isPaused) == IF isPaused THEN "idle" ELSE "call"

\* svc.taskQueue.EnqueueUnique(file.ID, 0): nil (pushed or ignored as a
\* duplicate) returns after the notification, an error goes on to the
\* IsPaused check
AddFileEnqueue(c) ==
  /\ cpc[c] = "enqueue"
  /\ LET s == csvc[c]
         r == EnqueueResult(queue[s], inflight[s], stopped[s], cfile[c])
     IN /\ queue' = [queue EXCEPT ![s] = EnqueueUnique(queue[s], inflight[s], stopped[s], cfile[c])]
        /\ cpc' = [cpc EXCEPT ![c] = IF r \in {"ok", "dup"} THEN "idle" ELSE "enqueue_err"]
        /\ heldBack' = IF r = "ok" /\ paused[s] THEN heldBack \cup {cfile[c]} ELSE heldBack
        /\ cfile' = [cfile EXCEPT ![c] = IF cpc'[c] = "idle" THEN 0 ELSE cfile[c]]
        /\ csvc' = [csvc EXCEPT ![c] = IF cpc'[c] = "idle" THEN 0 ELSE s]
  /\ UNCHANGED <<jobVars, setVars, svcVars, inflight, goVars>>
  /\ UNCHANGED rowVars
  /\ UNCHANGED appVars

\* the error branch of AddFileToQueue: svc.IsPaused() is read
AddFileEnqueueFailed(c) ==
  /\ cpc[c] = "enqueue_err"
  /\ cpc' = [cpc EXCEPT ![c] = AfterEnqueueError(paused[csvc[c]])]
  /\ cfile' = [cfile EXCEPT ![c] = IF cpc'[c] = "idle" THEN 0 ELSE cfile[c]]
  /\ csvc' = [csvc EXCEPT ![c] = IF cpc'[c] = "idle" THEN 0 ELSE csvc[c]]
  /\ UNCHANGED <<jobVars, setVars, svcVars, tqVars, goVars, heldBack>>
  /\ UNCHANGED rowVars
  /\ UNCHANGED appVars

\* ProcessSingleFile: the executor runs in the caller, its result is dropped
ProcessSingleFile(c, out) ==
  /\ cpc[c] = "call"
  /\ AiImageTaggingAndSaveWithBase64(cfile[c], out)
  /\ cpc' = [cpc EXCEPT ![c] = "idle"]
  /\ cfile' = [cfile EXCEPT ![c] = 0]
  /\ csvc' = [csvc EXCEPT ![c] = 0]
  /\ UNCHANGED <<setVars, svcVars, tqVars, goVars, heldBack>>
  /\ UNCHANGED rowVars
  /\ UNCHANGED appVars

\* AddFileToQueue returns nil
AddFileReturn(c) ==
  /\ cpc[c] = "ret_disabled"
  /\ cpc' = [cpc EXCEPT ![c] = "idle"]
  /\ cfile' = [cfile EXCEPT ![c] = 0]
  /\ csvc' = [csvc EXCEPT ![c] = 0]
  /\ UNCHANGED <<jobVars, setVars, svcVars, tqVars, goVars, heldBack>>
  /\ UNCHANGED rowVars
  /\ UNCHANGED appVars

\* ---- Pause, Resume, Stop, UpdateConcurrency (spec.md 4.4) ----------------------
\* Stop: the instance accepts no new work and its queued ids are dropped;
\* running executions go on
Stop(s) ==
  /\ stopped' = [stopped EXCEPT ![s] = TRUE]
  /\ queue' = [queue EXCEPT ![s] = <<>>]

Pause(s) == paused' = [paused EXCEPT ![s] = TRUE]

\* Resume: unpause, then the enqueue-all-pending sweep
Resume(s) ==
  /\ paused' = [paused EXCEPT ![s] = FALSE]
  /\ queue' = EnqueueAllPending(s, status, queue)

\* UpdateConcurrency: n > 0 is validated, then the permit count is replaced
UpdateConcurrencyDropping(s, n) ==
  /\ concurrency' = [concurrency EXCEPT ![s] = n]
  /\ inflight' = [inflight EXCEPT ![s] = IF Cardinality(inflight[s]) > n THEN {} ELSE inflight[s]]

\* an UpdateConcurrency that takes every n as it comes
UpdateConcurrencyUnvalidated(s, n) ==
  /\ concurrency' = [concurrency EXCEPT ![s] = n]
  /\ inflight' = inflight

UpdateConcurrency(s, n) ==
  /\ concurrency' = IF n > 0 THEN [concurrency EXCEPT ![s] = n] ELSE concurrency
  /\ inflight' = inflight

\* ---- RegisterAISettingHooks ---------------------------------------------------
\* "go EnqueueAllPending(1000)"
SpawnSweep(yes) ==
  IF yes THEN sweeps < MaxSweeps /\ sweeps' = sweeps + 1 ELSE sweeps' = sweeps

\* a disable handler that also withdraws the pending jobs it leaves behind
OnAiEnabledWithdraw(v) ==
  /\ ~v
  /\ globalTaggingService # 0
  /\ aiEnabled' = v
  /\ Stop(globalTaggingService)
  /\ globalTaggingService' = 0
  /\ status' = [f \in Files |-> IF status[f] = "pending" THEN "none" ELSE status[f]]
  /\ heldBack' = {}
  /\ UNCHANGED <<tries, stale, original, providerCalled, propagate>>
  /\ UNCHANGED <<autoProcessing, aiConcurrency, created, paused, concurrency, startup, sweeps>>
  /\ UNCHANGED <<inflight, cpc, cfile, csvc, affectedIDs, aiScanTimer>>
  /\ UNCHANGED rowVars
  /\ UNCHANGED appVars

\* the two handlers of ai.ai_enabled: the enable/disable handler, then
\* handleAIConfigChange
OnAiEnabled(v) ==
  /\ aiEnabled' = v
  /\ UNCHANGED <<autoProcessing, aiConcurrency>>
  /\ IF v /\ globalTaggingService = 0
     THEN /\ InitGlobalTaggingQueue(v, autoProcessing)
          /\ SpawnSweep(globalTaggingService' # 0 /\ ~paused'[globalTaggingService'])
          /\ UNCHANGED queue
     ELSE IF ~v /\ globalTaggingService # 0
     THEN /\ Stop(globalTaggingService)
          /\ globalTaggingService' = 0
          /\ UNCHANGED <<created, paused, concurrency, startup, sweeps>>
     ELSE UNCHANGED <<svcVars, startup, sweeps, queue>>
  /\ aiScanTimer' = IF v /\ globalTaggingService' # 0 /\ ~paused'[globalTaggingService']
                    THEN TRUE ELSE aiScanTimer
  /\ heldBack' = IF ~v /\ globalTaggingService # 0 THEN {} ELSE heldBack
  /\ UNCHANGED <<jobVars, inflight, cpc, cfile, csvc, affectedIDs>>
  /\ UNCHANGED rowVars
  /\ UNCHANGED appVars

\* the handler of ai.ai_auto_processing_enabled
OnAutoProcessing(v) ==
  /\ autoProcessing' = v
  /\ UNCHANGED <<aiEnabled, aiConcurrency>>
  /\ IF v /\ globalTaggingService = 0
     THEN /\ InitGlobalTaggingQueue(aiEnabled, v)
          /\ SpawnSweep(globalTaggingService' # 0)
          /\ UNCHANGED queue
     ELSE IF globalTaggingService = 0
     THEN UNCHANGED <<svcVars, startup, sweeps, queue>>
     ELSE /\ IF v THEN Resume(globalTaggingService)
                  ELSE Pause(globalTaggingService) /\ UNCHANGED queue
          /\ UNCHANGED <<globalTaggingService, created, stopped, concurrency, startup, sweeps>>
  /\ heldBack' = IF v /\ globalTaggingService # 0 THEN {} ELSE heldBack
  /\ UNCHANGED <<jobVars, inflight, cpc, cfile, csvc, affectedIDs, aiScanTimer>>
  /\ UNCHANGED rowVars
  /\ UNCHANGED appVars

\* the handler of ai.ai_concurrency; n is the value read from the database
OnConcurrency(n) ==
  /\ aiConcurrency' = n
  /\ IF globalTaggingService # 0 /\ n > 0
     THEN UpdateConcurrency(globalTaggingService, n)
     ELSE UNCHANGED <<concurrency, inflight>>
  /\ UNCHANGED <<globalTaggingService, created, paused, stopped, queue>>
  /\ UNCHANGED <<jobVars, aiEnabled, autoProcessing, callVars, goVars>>
  /\ UNCHANGED rowVars
  /\ UNCHANGED appVars

\* UpdateConcurrency(n) called on the live service with any n
UpdateConcurrencyCall(n) ==
  /\ globalTaggingService # 0
  /\ UpdateConcurrency(globalTaggingService, n)
  /\ UNCHANGED <<globalTaggingService, created, paused, stopped, queue>>
  /\ UNCHANGED <<jobVars, setVars, callVars, goVars>>
  /\ UNCHANGED rowVars
  /\ UNCHANGED appVars

\* handleAIConfigChange for ai_api_key, ai_base_url, ai_model
OnAIConfigChange ==
  /\ aiEnabled
  /\ InitGlobalTaggingQueue(aiEnabled, autoProcessing)
  /\ aiScanTimer' = IF globalTaggingService' # 0 /\ ~paused'[globalTaggingService']
                    THEN TRUE ELSE aiScanTimer
  /\ UNCHANGED <<jobVars, setVars, tqVars, callVars, affectedIDs, sweeps>>
  /\ UNCHANGED rowVars
  /\ UNCHANGED appVars

\* ---- InitGlobalTaggingQueue, step by step ----------------------------------------
\* InitGlobalTaggingQueue after its checks: NewTaggingServiceWithConfig,
\* SetGlobalTaggingService, Pause when auto processing is off, and the
\* goroutines of the startup recovery and of the two maintenance loops
NewTaggingServiceWithConfig(auto) ==
  /\ created < MaxSvc
  /\ concurrency' = [concurrency EXCEPT ![created + 1] =
                        IF aiConcurrency > 0 THEN aiConcurrency ELSE MaxConcurrency]
  /\ created' = created + 1
  /\ globalTaggingService' = created + 1
  /\ paused' = [paused EXCEPT ![created + 1] = ~auto]
  /\ startup' = [startup EXCEPT ![created + 1] = "recover"]
  /\ UNCHANGED stopped

\* the ai_enabled handler with value true, on goroutine c, up to the checks of
\* InitGlobalTaggingQueue: no service is found and ai_enabled is read true
EnableBegin(c) ==
  /\ cpc[c] = "idle"
  /\ globalTaggingService = 0
  /\ aiEnabled' = TRUE
  /\ cpc' = [cpc EXCEPT ![c] = "hook_init"]
  /\ UNCHANGED <<jobVars, autoProcessing, aiConcurrency, svcVars, tqVars, goVars>>
  /\ UNCHANGED <<cfile, csvc, heldBack>>
  /\ UNCHANGED rowVars
  /\ UNCHANGED appVars

\* the rest of the ai_enabled handler: the service is constructed and made
\* global, the sweep goroutine is started when it is not paused, and
\* handleAIConfigChange arms the scan timer
EnableFinish(c) ==
  /\ cpc[c] = "hook_init"
  /\ NewTaggingServiceWithConfig(autoProcessing)
  /\ SpawnSweep(~paused'[globalTaggingService'])
  /\ aiScanTimer' = IF aiEnabled /\ ~paused'[globalTaggingService']
                    THEN TRUE ELSE aiScanTimer
  /\ cpc' = [cpc EXCEPT ![c] = "idle"]
  /\ UNCHANGED <<jobVars, setVars, tqVars, affectedIDs>>
  /\ UNCHANGED <<cfile, csvc, heldBack>>
  /\ UNCHANGED rowVars
  /\ UNCHANGED appVars

\* InitGlobalTaggingQueue in the ai_enabled handler, up to
\* SetGlobalTaggingService: the service is constructed with its pool and made
\* global; it is not paused and its goroutines are not started yet
EnableSetGlobal(c) ==
  /\ cpc[c] = "hook_init"
  /\ created < MaxSvc
  /\ concurrency' = [concurrency EXCEPT ![created + 1] =
                        IF aiConcurrency > 0 THEN aiConcurrency ELSE MaxConcurrency]
  /\ created' = created + 1
  /\ globalTaggingService' = created + 1
  /\ paused' = [paused EXCEPT ![created + 1] = FALSE]
  /\ csvc' = [csvc EXCEPT ![c] = created + 1]
  /\ cpc' = [cpc EXCEPT ![c] = "hook_pause"]
  /\ UNCHANGED <<jobVars, setVars, tqVars, goVars, stopped, cfile, heldBack>>
  /\ UNCHANGED rowVars
  /\ UNCHANGED appVars

\* InitGlobalTaggingQueue goes on: ai_auto_processing_enabled is read and the
\* service paused when it is off, the startup goroutine is started; back in
\* the handler the sweep goroutine is started when the service is not paused
EnablePause(c) ==
  /\ cpc[c] = "hook_pause"
  /\ paused' = [paused EXCEPT ![csvc[c]] = ~autoProcessing]
  /\ startup' = [startup EXCEPT ![csvc[c]] = "recover"]
  /\ SpawnSweep(globalTaggingService # 0 /\ ~paused'[globalTaggingService])
  /\ aiScanTimer' = IF aiEnabled /\ globalTaggingService # 0
                        /\ ~paused'[globalTaggingService]
                    THEN TRUE ELSE aiScanTimer
  /\ cpc' = [cpc EXCEPT ![c] = "idle"]
  /\ csvc' = [csvc EXCEPT ![c] = 0]
  /\ UNCHANGED <<jobVars, setVars, tqVars, affectedIDs>>
  /\ UNCHANGED <<globalTaggingService, created, stopped, concurrency, cfile, heldBack>>
  /\ UNCHANGED rowVars
  /\ UNCHANGED appVars

\* AddFileToQueue on goroutine c, up to the checks of InitGlobalTaggingQueue:
\* no service is found and ai_enabled is read true
AddFileBegin(c, f) ==
  /\ cpc[c] = "idle"
  /\ globalTaggingService = 0
  /\ aiEnabled
  /\ cpc' = [cpc EXCEPT ![c] = "upload_init"]
  /\ cfile' = [cfile EXCEPT ![c] = f]
  /\ UNCHANGED <<jobVars, setVars, svcVars, tqVars, goVars, csvc, heldBack>>
  /\ UNCHANGED rowVars
  /\ UNCHANGED appVars

\* AddFileToQueue goes on: the service is constructed and made global, the
\* file is written pending with a fresh heartbeat
AddFileInit(c) ==
  /\ cpc[c] = "upload_init"
  /\ NewTaggingServiceWithConfig(autoProcessing)
  /\ csvc' = [csvc EXCEPT ![c] = globalTaggingService']
  /\ cpc' = [cpc EXCEPT ![c] = "enqueue"]
  /\ status' = [status EXCEPT ![cfile[c]] = "pending"]
  /\ stale' = [stale EXCEPT ![cfile[c]] = FALSE]
  /\ UNCHANGED <<tries, original, providerCalled, propagate>>
  /\ UNCHANGED <<setVars, tqVars, affectedIDs, sweeps, aiScanTimer, cfile, heldBack>>
  /\ UNCHANGED rowVars
  /\ UNCHANGED appVars

\* the server starts: RegisterAISettingHooks, then InitGlobalTaggingQueue with
\* the stored settings
Bootstrap ==
  /\ created = 0
  /\ aiEnabled
  /\ InitGlobalTaggingQueue(aiEnabled, autoProcessing)
  /\ UNCHANGED <<jobVars, setVars, tqVars, callVars, affectedIDs, sweeps, aiScanTimer>>
  /\ UNCHANGED rowVars
  /\ UNCHANGED appVars

\* ---- goroutines and timers ------------------------------------------------------
\* a "go EnqueueAllPending(1000)" goroutine runs
GoEnqueueAllPending ==
  /\ sweeps > 0
  /\ sweeps' = sweeps - 1
  /\ queue' = EnqueueAllPending(globalTaggingService, status, queue)
  /\ UNCHANGED <<jobVars, setVars, svcVars, inflight, callVars, startup, affectedIDs, aiScanTimer>>
  /\ UNCHANGED rowVars
  /\ UNCHANGED appVars

\* aiScanTimer fires: EnqueueAllPending(1000)
ScanTimerFire ==
  /\ aiScanTimer
  /\ aiScanTimer' = FALSE
  /\ queue' = EnqueueAllPending(globalTaggingService, status, queue)
  /\ UNCHANGED <<jobVars, setVars, svcVars, inflight, callVars, startup, affectedIDs, sweeps>>
  /\ UNCHANGED rowVars
  /\ UNCHANGED appVars

\* RecoverPendingOnStartup, the transaction: the pending files are written
\* none with tries 0
RecoverPendingOnStartup(i) ==
  /\ startup[i] = "recover"
  /\ LET ids == PendingFiles(status)
     IN /\ affectedIDs' = [affectedIDs EXCEPT ![i] = ids]
        /\ status' = [f \in Files |-> IF f \in ids THEN "none" ELSE status[f]]
        /\ tries' = [f \in Files |-> IF f \in ids THEN 0 ELSE tries[f]]
        /\ startup' = [startup EXCEPT ![i] = IF ids = {} THEN "sweep" ELSE "batch"]
  /\ UNCHANGED <<stale, original, providerCalled, propagate>>
  /\ UNCHANGED <<setVars, svcVars, tqVars, callVars, sweeps, aiScanTimer>>
  /\ UNCHANGED rowVars
  /\ UNCHANGED appVars

\* BatchProcessFiles: every file is marked pending and handed to EnqueueUnique
BatchProcessFiles(s, ids, qs) ==
  [qs EXCEPT ![s] = EnqueueEach(qs[s], inflight[s], stopped[s], ids)]

\* a startup recovery that ends with its transaction and hands nothing back
RecoverBatchDropped(i) ==
  /\ startup[i] = "batch"
  /\ startup' = [startup EXCEPT ![i] = "sweep"]
  /\ affectedIDs' = [affectedIDs EXCEPT ![i] = {}]
  /\ UNCHANGED <<queue, jobVars>>
  /\ UNCHANGED <<setVars, svcVars, inflight, callVars, sweeps, aiScanTimer>>
  /\ UNCHANGED rowVars
  /\ UNCHANGED appVars

\* RecoverPendingOnStartup, after the transaction: the affected files are
\* handed to the service that is global now, if there is one
RecoverBatch(i) ==
  /\ startup[i] = "batch"
  /\ startup' = [startup EXCEPT ![i] = "sweep"]
  /\ affectedIDs' = [affectedIDs EXCEPT ![i] = {}]
  /\ IF globalTaggingService # 0
     THEN /\ queue' = BatchProcessFiles(globalTaggingService, affectedIDs[i], queue)
          /\ status' = [f \in Files |-> IF f \in affectedIDs[i] THEN "pending" ELSE status[f]]
          /\ stale' = [f \in Files |-> IF f \in affectedIDs[i] THEN FALSE ELSE stale[f]]
     ELSE UNCHANGED <<queue, status, stale>>
  /\ UNCHANGED <<tries, original, providerCalled, propagate>>
  /\ UNCHANGED <<setVars, svcVars, inflight, callVars, sweeps, aiScanTimer>>
  /\ UNCHANGED rowVars
  /\ UNCHANGED appVars

\* the EnqueueAllPending(1000) that follows RecoverPendingOnStartup
StartupSweep(i) ==
  /\ startup[i] = "sweep"
  /\ startup' = [startup EXCEPT ![i] = "none"]
  /\ queue' = EnqueueAllPending(globalTaggingService, status, queue)
  /\ UNCHANGED <<jobVars, setVars, svcVars, inflight, callVars, affectedIDs, sweeps, aiScanTimer>>
  /\ UNCHANGED rowVars
  /\ UNCHANGED appVars

\* a tick that resets the stuck jobs together with their tries
StuckTickClearTries ==
  /\ created >= 1
  /\ globalTaggingService # 0
  /\ status' = ResetStuckPendingFiles
  /\ tries' = [f \in Files |-> IF f \in FindStuck THEN 0 ELSE tries[f]]
  /\ queue' = IF FindStuck # {} /\ ~paused[globalTaggingService]
              THEN EnqueueAllPending(globalTaggingService, ResetStuckPendingFiles, queue)
              ELSE queue
  /\ UNCHANGED <<stale, original, providerCalled, propagate>>
  /\ UNCHANGED <<setVars, svcVars, inflight, callVars, goVars>>
  /\ UNCHANGED rowVars
  /\ UNCHANGED appVars

\* a tick that resets the stuck jobs and never re-enqueues
StuckTickNoSweep ==
  /\ created >= 1
  /\ status' = IF globalTaggingService # 0 THEN ResetStuckPendingFiles ELSE status
  /\ UNCHANGED <<tries, stale, original, providerCalled, propagate>>
  /\ UNCHANGED <<setVars, svcVars, tqVars, callVars, goVars>>
  /\ UNCHANGED rowVars
  /\ UNCHANGED appVars

\* one tick of the stuck-job recovery loop started by InitGlobalTaggingQueue
StuckTick ==
  /\ created >= 1
  /\ IF globalTaggingService # 0
     THEN /\ status' = ResetStuckPendingFiles
          /\ queue' = IF FindStuck # {} /\ ~paused[globalTaggingService]
                      THEN EnqueueAllPending(globalTaggingService, ResetStuckPendingFiles, queue)
                      ELSE queue
     ELSE UNCHANGED <<status, queue>>
  /\ UNCHANGED <<tries, stale, original, providerCalled, propagate>>
  /\ UNCHANGED <<setVars, svcVars, inflight, callVars, goVars>>
  /\ UNCHANGED rowVars
  /\ UNCHANGED appVars

\* time passes: the heartbeat of a pending or processing job gets older than
\* the stuck threshold
Age(f) ==
  /\ status[f] \in {"pending", "processing"}
  /\ ~stale[f]
  /\ stale' = [stale EXCEPT ![f] = TRUE]
  /\ UNCHANGED <<status, tries, original, providerCalled, propagate>>
  /\ UNCHANGED <<setVars, svcVars, tqVars, callVars, goVars>>
  /\ UNCHANGED rowVars
  /\ UNCHANGED appVars

\* ---- specifications --------------------------------------------------------------
NoService ==
  /\ globalTaggingService = 0
  /\ created = 0
  /\ paused = [s \in Svcs |-> FALSE]
  /\ stopped = [s \in Svcs |-> FALSE]
  /\ concurrency = [s \in Svcs |-> 1]
  /\ queue = [s \in Svcs |-> <<>>]
  /\ inflight = [s \in Svcs |-> {}]
  /\ startup = [s \in Svcs |-> "none"]
  /\ affectedIDs = [s \in Svcs |-> {}]
  /\ sweeps = 0
  /\ aiScanTimer = FALSE

FreshFiles ==
  /\ status = [f \in Files |-> "none"]
  /\ tries = [f \in Files |-> 0]
  /\ stale = [f \in Files |-> FALSE]
  /\ providerCalled = [f \in Files |-> FALSE]
  /\ propagate = [f \in Files |-> FALSE]

\* the process is up: database.InitDB has run and Shutdown has not, and no
\* upload of a duplicate is under way
AppUp ==
  /\ dbOpen = TRUE
  /\ reusing = {}
  /\ reviewLog = [f \in Files |-> <<>>]
  /\ hardDeleting = {}
  /\ response = NoResponse

\* no file has been analysed, flagged or tagged
FreshRows ==
  /\ fileState = [f \in Files |-> "active"]
  /\ reviewReason = [f \in Files |-> "none"]
  /\ nsfw = [f \in Files |-> FALSE]
  /\ aiInfo = [f \in Files |-> <<>>]
  /\ tagRel = [f \in Files |-> <<>>]

IdleCallers ==
  /\ cpc = [c \in Callers |-> "idle"]
  /\ cfile = [c \in Callers |-> 0]
  /\ csvc = [c \in Callers |-> 0]
  /\ heldBack = {}

\* a duplicate points at an earlier file that is not itself a duplicate
Originals == {o \in [Files -> 0..NumFiles] :
                \A f \in Files : o[f] # 0 => (o[f] < f /\ o[o[f]] = 0)}

\* the process has started with the default settings: AI off, no service
InitBoot ==
  /\ NoService /\ FreshFiles /\ FreshRows /\ IdleCallers /\ AppUp
  /\ original \in Originals
  /\ aiEnabled = FALSE
  /\ autoProcessing = FALSE
  /\ aiConcurrency \in 0..MaxConcurrency

\* InitGlobalTaggingQueue has run with ai_enabled on and auto processing as
\* given: service 1 is global, paused when auto processing is off, and its
\* startup goroutine has found nothing to do
RunningService(auto) ==
  /\ aiEnabled = TRUE
  /\ autoProcessing = auto
  /\ aiConcurrency \in 1..MaxConcurrency
  /\ globalTaggingService = 1
  /\ created = 1
  /\ paused = [s \in Svcs |-> s = 1 /\ ~auto]
  /\ stopped = [s \in Svcs |-> FALSE]
  /\ concurrency = [s \in Svcs |-> IF s = 1 THEN aiConcurrency ELSE 1]
  /\ queue = [s \in Svcs |-> <<>>]
  /\ inflight = [s \in Svcs |-> {}]
  /\ startup = [s \in Svcs |-> "none"]
  /\ affectedIDs = [s \in Svcs |-> {}]
  /\ sweeps = 0
  /\ aiScanTimer = FALSE

\* a service is running with auto processing on
Init ==
  /\ FreshFiles /\ FreshRows /\ IdleCallers /\ AppUp
  /\ original \in Originals
  /\ RunningService(TRUE)

\* a caller of AddFileToQueue takes a step
EnqueueCalls(c) ==
  \/ \E f \in Files : AddFileToQueue(c, f)
  \/ AddFileEnqueue(c)
  \/ AddFileEnqueueFailed(c)
  \/ \E out \in Outcomes : ProcessSingleFile(c, out)

Workers == \E s \in Svcs :
  \/ WorkerPickup(s)
  \/ \E f \in Files, out \in Outcomes : WorkerExecute(s, f, out)

\* the running service with one uploader: files are enqueued and processed
\* while the service is paused and resumed, until the feature is switched off
Next ==
  \/ EnqueueCalls(1)
  \/ AddFileReturn(1)
  \/ Workers
  \/ \E v \in BOOLEAN : OnAutoProcessing(v)
  \/ OnAiEnabled(FALSE)
  \/ StuckTick
  \/ \E f \in Files : Age(f)
  \/ \E o \in Files : propagateAIToDuplicates(o)

Spec == Init /\ [][Next]_vars

\* the running service with concurrent uploaders of files that are no
\* duplicates, paused and resumed
InitPause == Init /\ original = [f \in Files |-> 0]

NextPause ==
  \/ \E c \in Callers : EnqueueCalls(c)
  \/ Workers
  \/ \E v \in BOOLEAN : OnAutoProcessing(v)

SpecPause == InitPause /\ [][NextPause]_vars

\* the running service while its worker pool is resized
NextResize ==
  \/ \E c \in Callers : EnqueueCalls(c)
  \/ Workers
  \/ \E n \in 0..MaxConcurrency : OnConcurrency(n)
  \/ \E o \in Files : propagateAIToDuplicates(o)

SpecResize == Init /\ [][NextResize]_vars

\* the process has restarted after a crash: a service is running, paused or
\* not, and the file table holds the processing rows the last run left
\* behind, which no worker of this process holds
LeftBehind == {"none", "processing"}

InitRecovery ==
  /\ IdleCallers /\ FreshRows /\ AppUp
  /\ status \in [Files -> LeftBehind]
  /\ stale \in [Files -> BOOLEAN]
  /\ \A f \in Files : stale[f] => status[f] = "processing"
  /\ tries = [f \in Files |-> 0]
  /\ providerCalled = [f \in Files |-> FALSE]
  /\ propagate = [f \in Files |-> FALSE]
  /\ original = [f \in Files |-> 0]
  /\ \E auto \in BOOLEAN : RunningService(auto)

RecoveryOutcomes == {"ok", "perr", "bad"}

NextRecovery ==
  \/ StuckTick
  \/ \E f \in Files : Age(f)
  \/ \E s \in Svcs :
       \/ WorkerPickup(s)
       \/ \E f \in Files, out \in RecoveryOutcomes : WorkerExecute(s, f, out)
  \/ \E v \in BOOLEAN : OnAutoProcessing(v)
  \/ OnAiEnabled(FALSE)

SpecRecovery == InitRecovery /\ [][NextRecovery]_vars

\* a paused service is resumed: files are uploaded while the service is
\* paused, then auto processing is switched on, and workers, ticks and time go on;
\* the provider answers and the database is available
InitLive ==
  /\ FreshFiles /\ FreshRows /\ IdleCallers /\ AppUp
  /\ original = [f \in Files |-> 0]
  /\ RunningService(FALSE)

LiveOutcomes == Outcomes \ {"dberr"}

UploadWhilePaused == \E f \in Files :
  /\ globalTaggingService # 0 /\ paused[globalTaggingService]
  /\ AddFileToQueue(1, f)

UploadGoesOn ==
  \/ AddFileEnqueue(1)
  \/ AddFileEnqueueFailed(1)
  \/ \E out \in LiveOutcomes : ProcessSingleFile(1, out)

WorkerRuns(s) == \E f \in Files, out \in LiveOutcomes : WorkerExecute(s, f, out)

NextLive ==
  \/ UploadWhilePaused
  \/ UploadGoesOn
  \/ OnAutoProcessing(TRUE)
  \/ WorkerPickup(1)
  \/ WorkerRuns(1)
  \/ StuckTick
  \/ \E f \in Files : Age(f)

\* workers that can run do run, a started AddFileToQueue goes on, the ticker
\* ticks and time passes
FairLive ==
  /\ WF_vars(WorkerPickup(1))
  /\ WF_vars(WorkerRuns(1))
  /\ WF_vars(UploadGoesOn)
  /\ WF_vars(StuckTick)
  /\ \A f \in Files : WF_vars(Age(f))

SpecLive == InitLive /\ [][NextLive]_vars /\ FairLive

\* the whole life cycle, from the start of the process
NextLifecycle ==
  \/ Next
  \/ \E c \in Callers : EnqueueCalls(c) \/ AddFileReturn(c)
  \/ \E n \in 0..MaxConcurrency : OnConcurrency(n)
  \/ OnAiEnabled(TRUE)
  \/ OnAIConfigChange
  \/ GoEnqueueAllPending
  \/ ScanTimerFire
  \/ \E i \in Svcs : RecoverPendingOnStartup(i)
  \/ \E i \in Svcs : RecoverBatch(i)
  \/ \E i \in Svcs : StartupSweep(i)

SpecLifecycle == InitBoot /\ [][NextLifecycle]_vars

\* the rows an earlier process has left: jobs that were pending or failed when
\* it ended, with the tries counted so far
InitStartup ==
  /\ NoService /\ IdleCallers /\ FreshRows /\ AppUp
  /\ status \in [Files -> {"none", "pending", "failed"}]
  /\ tries \in [Files -> 0..MaxTries]
  /\ \A f \in Files : /\ status[f] = "failed" => tries[f] >= 1
                      /\ status[f] = "none" => tries[f] = 0
  /\ stale = [f \in Files |-> FALSE]
  /\ providerCalled = [f \in Files |-> FALSE]
  /\ propagate = [f \in Files |-> FALSE]
  /\ original = [f \in Files |-> IF f = 2 THEN 1 ELSE 0]
  /\ aiEnabled = TRUE
  /\ autoProcessing \in BOOLEAN
  /\ aiConcurrency = 1

StartupOutcomes == {"ok", "perr", "bad"}

\* the server starts over the rows left behind: startup recovery, uploads,
\* workers, the stuck-job loop and the propagation to duplicates, with the
\* database available
NextStartup ==
  \/ Bootstrap
  \/ \E i \in Svcs : RecoverPendingOnStartup(i)
  \/ \E i \in Svcs : RecoverBatch(i)
  \/ \E i \in Svcs : StartupSweep(i)
  \/ \E f \in Files : AddFileToQueue(1, f)
  \/ AddFileEnqueue(1)
  \/ AddFileEnqueueFailed(1)
  \/ \E out \in StartupOutcomes : ProcessSingleFile(1, out)
  \/ \E s \in Svcs :
       \/ WorkerPickup(s)
       \/ \E f \in Files, out \in StartupOutcomes : WorkerExecute(s, f, out)
  \/ StuckTick
  \/ \E f \in Files : Age(f)
  \/ \E o \in Files : propagateAIToDuplicates(o)

SpecStartup == InitStartup /\ [][NextStartup]_vars

\* a fresh installation: the hooks are registered, AI is off, no service
InitSetup ==
  /\ NoService /\ FreshFiles /\ FreshRows /\ IdleCallers /\ AppUp
  /\ original = [f \in Files |-> 0]
  /\ aiEnabled = FALSE
  /\ autoProcessing = TRUE
  /\ aiConcurrency = 1

SetupOutcomes == {"ok", "perr"}

\* AI is switched on and off on one goroutine while files are uploaded on
\* another: the handler and the upload interleave between the checks of
\* InitGlobalTaggingQueue and its construction of the service
NextSetup ==
  \/ EnableBegin(2)
  \/ EnableFinish(2)
  \/ \E f \in Files : AddFileBegin(1, f)
  \/ AddFileInit(1)
  \/ \E f \in Files : globalTaggingService # 0 /\ AddFileToQueue(1, f)
  \/ AddFileEnqueue(1)
  \/ AddFileEnqueueFailed(1)
  \/ \E out \in SetupOutcomes : ProcessSingleFile(1, out)
  \/ OnAiEnabled(FALSE)
  \/ \E i \in Svcs : RecoverPendingOnStartup(i)
  \/ \E i \in Svcs : RecoverBatch(i)
  \/ \E i \in Svcs : StartupSweep(i)
  \/ GoEnqueueAllPending
  \/ ScanTimerFire

SpecSetup == InitSetup /\ [][NextSetup]_vars

\* the executor runs for a file of fs with a response of rs, under every
\* setting of analysis, content detection and handling
ExecutorRuns(fs, rs) ==
  \E f \in fs, ana \in BOOLEAN, resp \in rs, detect \in BOOLEAN, mode \in Modes :
    ExecutorRun(f, ana, resp, detect, mode)

\* the permits of the running service: one uploader, the workers, the
\* ai_concurrency handler with every stored value and UpdateConcurrency with
\* every argument, zero included
Permits == 0..MaxConcurrency

NextPermits ==
  \/ EnqueueCalls(1)
  \/ Workers
  \/ \E n \in Permits : OnConcurrency(n)
  \/ \E n \in Permits : UpdateConcurrencyCall(n)

SpecPermits == InitPause /\ [][NextPermits]_vars

\* App.Shutdown after a signal: the HTTP server is shut down, the app context is
\* cancelled (nothing listens to it), cron and the vector engine are stopped,
\* then database.Close and cache.Close; main returns and the process ends
Shutdown ==
  /\ dbOpen
  /\ dbOpen' = FALSE
  /\ UNCHANGED <<jobVars, setVars, svcVars, tqVars, callVars, goVars, rowVars>>
  /\ UNCHANGED <<reusing, reviewLog, hardDeleting, response>>

\* the running service until the process is shut down: one uploader and the
\* workers while the process lives
NextShutdown ==
  \/ dbOpen /\ EnqueueCalls(1)
  \/ dbOpen /\ Workers
  \/ Shutdown

SpecShutdown == InitPause /\ [][NextShutdown]_vars

\* the startup goroutine of an initialisation takes a step
StartupGoesOn == \E i \in Svcs :
  RecoverPendingOnStartup(i) \/ RecoverBatch(i) \/ StartupSweep(i)

\* the feature is enabled with auto processing off while files are uploaded:
\* the handler's initialisation step by step, one uploader, the workers and
\* the startup goroutine
InitHeld ==
  /\ NoService /\ FreshFiles /\ FreshRows /\ IdleCallers /\ AppUp
  /\ original = [f \in Files |-> 0]
  /\ aiEnabled = FALSE
  /\ autoProcessing = FALSE
  /\ aiConcurrency \in 1..MaxConcurrency

NextHeld ==
  \/ EnableBegin(2)
  \/ EnableSetGlobal(2)
  \/ EnablePause(2)
  \/ \E f \in Files : globalTaggingService # 0 /\ AddFileToQueue(1, f)
  \/ AddFileEnqueue(1)
  \/ AddFileEnqueueFailed(1)
  \/ \E out \in SetupOutcomes : ProcessSingleFile(1, out)
  \/ \E s \in Svcs :
       \/ WorkerPickup(s)
       \/ \E f \in Files, out \in SetupOutcomes : WorkerExecute(s, f, out)
  \/ StartupGoesOn

SpecHeld == InitHeld /\ [][NextHeld]_vars

\* a duplicate has just been uploaded: its reuse goroutine is pending while
\* its original is analysed and the result propagated
InitReuse ==
  /\ FreshFiles /\ FreshRows /\ IdleCallers
  /\ original = [f \in Files |-> IF f = 2 THEN 1 ELSE 0]
  /\ RunningService(TRUE)
  /\ aiConcurrency = 1
  /\ dbOpen = TRUE
  /\ reusing = {2}
  /\ reviewLog = [f \in Files |-> <<>>]
  /\ hardDeleting = {}
  /\ response = NoResponse

NextReuse ==
  \/ ExecutorRuns({f \in Files : original[f] = 0}, Responses)
  \/ \E o \in Files : propagateAIToDuplicates(o)
  \/ \E d \in Files : reuseAnalysisAndVectorForDuplicate(d)

SpecReuse == InitReuse /\ [][NextReuse]_vars

\* the row the executor leaves for a file it quarantined under pending_review
Quarantined ==
  ResultRows([fileState |-> "active", reviewReason |-> "none", nsfw |-> FALSE,
              aiInfo |-> <<>>, tagRel |-> <<>>],
             CHOOSE resp \in Responses : resp.kind = "result" /\ resp.isNSFW,
             TRUE, "pending_review")

\* files wait for review: two admins decide on them concurrently
InitReview ==
  /\ IdleCallers
  /\ status = [f \in Files |-> "done"]
  /\ tries = [f \in Files |-> 0]
  /\ stale = [f \in Files |-> FALSE]
  /\ providerCalled = [f \in Files |-> FALSE]
  /\ propagate = [f \in Files |-> FALSE]
  /\ original = [f \in Files |-> 0]
  /\ RunningService(TRUE)
  /\ aiConcurrency = 1
  /\ fileState = [f \in Files |-> Quarantined.fileState]
  /\ reviewReason = [f \in Files |-> Quarantined.reviewReason]
  /\ nsfw = [f \in Files |-> Quarantined.nsfw]
  /\ aiInfo = [f \in Files |-> Quarantined.aiInfo]
  /\ tagRel = [f \in Files |-> Quarantined.tagRel]
  /\ dbOpen = TRUE
  /\ reusing = {}
  /\ reviewLog = [f \in Files |-> <<>>]
  /\ hardDeleting = {}
  /\ response = NoResponse

NextReview ==
  \/ \E c \in Callers, f \in Files, act \in ReviewActs : ReviewBegin(c, f, act)
  \/ \E c \in Callers : ReviewCommit(c)
  \/ \E c \in Callers : ReviewRollback(c)
  \/ \E c \in Callers : ReviewReturn(c)
  \/ \E f \in Files : executeFileHardDeletion(f)

SpecReview == InitReview /\ [][NextReview]_vars

\* the row of a file as one executor run left it: untouched, quarantined, or
\* marked for deletion
RowsLeft ==
  {[fileState |-> "active", reviewReason |-> "none", nsfw |-> FALSE,
    aiInfo |-> <<>>, tagRel |-> <<>>],
   Quarantined,
   ResultRows([fileState |-> "active", reviewReason |-> "none", nsfw |-> FALSE,
               aiInfo |-> <<>>, tagRel |-> <<>>],
              CHOOSE resp \in Responses : resp.kind = "result" /\ resp.isNSFW,
              TRUE, "auto_delete")}

\* files are requested through /f, /t and /s
InitAccess ==
  /\ IdleCallers
  /\ status = [f \in Files |-> "done"]
  /\ tries = [f \in Files |-> 0]
  /\ stale = [f \in Files |-> FALSE]
  /\ providerCalled = [f \in Files |-> FALSE]
  /\ propagate = [f \in Files |-> FALSE]
  /\ original = [f \in Files |-> 0]
  /\ RunningService(TRUE)
  /\ aiConcurrency = 1
  /\ \E rows \in [Files -> RowsLeft] :
       /\ fileState = [f \in Files |-> rows[f].fileState]
       /\ reviewReason = [f \in Files |-> rows[f].reviewReason]
       /\ nsfw = [f \in Files |-> rows[f].nsfw]
       /\ aiInfo = [f \in Files |-> rows[f].aiInfo]
       /\ tagRel = [f \in Files |-> rows[f].tagRel]
  /\ AppUp

NextAccess ==
  \/ \E f \in Files, req \in Requests : ServeRequest(f, req)
  \/ SendResponse

SpecAccess == InitAccess /\ [][NextAccess]_vars

\* the feature is switched back on: a service ran and was disabled, jobs were
\* left pending in the store (some with an old heartbeat); the admin enables
\* the feature, and the startup goroutine, the sweep goroutine, the scan
\* timer, the workers, the stuck-job loop and time go on.  The provider
\* answers and the database is available.
InitReenable ==
  /\ IdleCallers /\ FreshRows /\ AppUp
  /\ status \in [Files -> {"none", "pending"}]
  /\ \E f \in Files : status[f] = "pending"
  /\ tries \in [Files -> 0..1]
  /\ stale \in [Files -> BOOLEAN]
  /\ \A f \in Files : status[f] = "none" => ~stale[f] /\ tries[f] = 0
  /\ original = [f \in Files |-> 0]
  /\ providerCalled = [f \in Files |-> FALSE]
  /\ propagate = [f \in Files |-> FALSE]
  /\ aiEnabled = FALSE
  /\ autoProcessing \in BOOLEAN
  /\ aiConcurrency = 1
  /\ globalTaggingService = 0
  /\ created = 1
  /\ paused = [s \in Svcs |-> FALSE]
  /\ stopped = [s \in Svcs |-> s = 1]
  /\ concurrency = [s \in Svcs |-> 1]
  /\ queue = [s \in Svcs |-> <<>>]
  /\ inflight = [s \in Svcs |-> {}]
  /\ startup = [s \in Svcs |-> "none"]
  /\ affectedIDs = [s \in Svcs |-> {}]
  /\ sweeps = 0
  /\ aiScanTimer = FALSE

NextReenable ==
  \/ OnAiEnabled(TRUE)
  \/ StartupGoesOn
  \/ GoEnqueueAllPending
  \/ ScanTimerFire
  \/ WorkerPickup(2)
  \/ WorkerRuns(2)
  \/ StuckTick
  \/ \E f \in Files : Age(f)

\* goroutines that were started run, workers that can run do run, the ticker
\* ticks and time passes; nothing is assumed about the admin
FairReenable ==
  /\ WF_vars(StartupGoesOn)
  /\ WF_vars(GoEnqueueAllPending)
  /\ WF_vars(WorkerPickup(2))
  /\ WF_vars(WorkerRuns(2))
  /\ WF_vars(StuckTick)
  /\ \A f \in Files : WF_vars(Age(f))

SpecReenable == InitReenable /\ [][NextReenable]_vars /\ FairReenable

\* file 2 is a duplicate of file 1, nothing has been analysed yet
InitExecutor ==
  /\ FreshFiles /\ FreshRows /\ IdleCallers /\ AppUp
  /\ original = [f \in Files |-> IF f = 2 THEN 1 ELSE 0]
  /\ RunningService(TRUE)
  /\ aiConcurrency = 1

\* the executor and its policy: the original is run with every response, its
\* duplicate receives the propagation
NextExecutor ==
  \/ ExecutorRuns({f \in Files : original[f] = 0}, Responses)
  \/ \E o \in Files : propagateAIToDuplicates(o)

SpecExecutor == InitExecutor /\ [][NextExecutor]_vars

\* the responses of the runs of an original and its duplicate: a provider
\* error, a rejection, and results that are not flagged
DuplicateResponses ==
  {r \in Responses :
     \/ r.kind \in {"perr", "rejection"}
     \/ r.kind = "result" /\ ~r.isNSFW /\ r.score = 3 /\ r.tags # <<>>}

\* an original and its duplicate: both are uploaded and run, as
\* upload_service.go queues every image, and the propagation runs
NextDuplicates ==
  \/ ExecutorRuns(Files, DuplicateResponses)
  \/ \E o \in Files : propagateAIToDuplicates(o)

SpecDuplicates == InitExecutor /\ [][NextDuplicates]_vars

\* ---- properties ---------------------------------------------------------------
Executing(s) == Cardinality(inflight[s])

StuckProcessing(f) == status[f] = "processing" /\ stale[f]

C3_ExhaustionFails ==
  [][\A s \in Svcs, f \in Files :
       (tries[f] = TriesThreshold - 1 /\ WorkerExecute(s, f, "perr"))
         => (status'[f] = "failed" /\ ~InQueue(queue'[s], f))]_vars

Executed == {"processing", "done", "skipped", "failed"}

Terminal(f) ==
  \/ status[f] \in {"done", "skipped"}
  \/ status[f] = "failed" /\ tries[f] >= TriesThreshold

\* the pending jobs that are neither queued nor held by a worker of s
NotQueued(s, st, qs) ==
  {f \in PendingFiles(st) : ~InQueue(qs[s], f) /\ f \notin inflight[s]}

ResumeStep ==
  /\ globalTaggingService # 0 /\ paused[globalTaggingService]
  /\ ~paused'[globalTaggingService]

C6_FullFallsBack ==
  [][\A c \in Callers :
       /\ ( /\ cpc[c] = "enqueue" /\ cpc'[c] # "enqueue"
            /\ EnqueueResult(queue[csvc[c]], inflight[csvc[c]],
                             stopped[csvc[c]], cfile[c]) = "full" )
          => (cpc'[c] = "enqueue_err" /\ cfile'[c] = cfile[c])
       /\ (cpc[c] = "enqueue_err" /\ cpc'[c] # "enqueue_err" /\ ~paused[csvc[c]])
          => (cpc'[c] = "call" /\ cfile'[c] = cfile[c])
       /\ (cpc[c] = "call" /\ cpc'[c] # "call")
          => \E out \in Outcomes :
               AiImageTaggingAndSaveWithBase64(cfile[c], out)]_vars

\* C6, its case: the queue was full and the service not paused, the caller
\* is inside ProcessSingleFile for its file, which is not queued
C6_Witness ==
  \E c \in Callers :
    /\ cpc[c] = "call" /\ cfile[c] \in Files
    /\ ~paused[csvc[c]] /\ ~stopped[csvc[c]]
    /\ Len(queue[csvc[c]]) >= QueueCap
    /\ ~InQueue(queue[csvc[c]], cfile[c])

\* C7 as stated: when AddFileToQueue finds no service and none can be
\* initialised, the file's job is skipped when it returns
C7_DisabledSkips ==
  [][\A c \in Callers :
       (cpc[c] = "idle" /\ cpc'[c] = "ret_disabled")
         => status'[cfile'[c]] = "skipped"]_vars

\* C8: a change of the permit count leaves the in-flight set, the queue and
\* every status as they are, and a job leaves the in-flight set only through
\* the return of its own executor run
C8_ResizeKeepsInflight ==
  [][\A s \in Svcs :
       /\ concurrency'[s] # concurrency[s]
            => (inflight' = inflight /\ queue' = queue /\ status' = status)
       /\ \A f \in Files : (f \in inflight[s] /\ f \notin inflight'[s])
            => \E out \in Outcomes : WorkerExecute(s, f, out)]_vars

\* C8, its case: the pool has been shrunk below the number of running
\* executions, which are all still in flight
C8_Witness ==
  \E s \in Svcs : Executing(s) > concurrency[s]

\* C9: a worker picks up a job only while fewer executions are running than
\* the permit count set by the last UpdateConcurrency
C9_PickupWithinPermits ==
  [][\A s \in Svcs :
       (\E f \in Files : f \in inflight'[s] /\ f \notin inflight[s])
         => Executing(s) < concurrency[s]]_vars

\* C9, its case: as many executions run at once as the permit count allows,
\* more than one, after the setting was changed to that count
C9_Witness ==
  \E s \in Svcs :
    /\ concurrency[s] = MaxConcurrency /\ aiConcurrency = MaxConcurrency
    /\ Executing(s) = MaxConcurrency

\* C10 as stated: no provider call is ever made for a file whose
\* original_file_id is set
C10_NoProviderCallForDuplicate ==
  \A f \in Files : original[f] # 0 => ~providerCalled[f]

\* C11: when the job of a duplicate's original is done and no propagation
\* for that original is still waiting to run, the duplicate's job is done and
\* the duplicate has the original's AI info and tag relations
C11_DoneReachesDuplicate ==
  \A b \in Files :
    (/\ original[b] # 0
     /\ status[original[b]] = "done"
     /\ ~propagate[original[b]])
    => /\ status[b] = "done"
       /\ aiInfo[b] = aiInfo[original[b]]
       /\ tagRel[b] = tagRel[original[b]]

\* C12: with content detection on and handling auto_delete, a run that
\* parses a result for an active file marks the file for deletion exactly
\* when the result's score is at least the threshold
C12_AutoDeleteByScore ==
  [][\A f \in Files, resp \in Responses, th \in Thresholds :
       (/\ resp.kind = "result"
        /\ fileState[f] = "active"
        /\ ExecutorRun(f, TRUE, resp, TRUE, "auto_delete"))
       => (fileState'[f] = "pending_deletion" <=> resp.score >= th)]_vars

\* C13: with content detection on and handling pending_review, a run that
\* parses a result for an active file with a score of at least the threshold
\* marks the file for review with the result's reason and saves its tags; with
\* a lower score the file stays active
C13_ReviewByScore ==
  [][\A f \in Files, resp \in Responses, th \in Thresholds :
       (/\ resp.kind = "result"
        /\ fileState[f] = "active"
        /\ ExecutorRun(f, TRUE, resp, TRUE, "pending_review"))
       => IF resp.score >= th
          THEN /\ fileState'[f] = "pending_review"
               /\ reviewReason'[f] = resp.reason
               /\ tagRel'[f] = processAndSaveTags(tagRel[f], resp.tags)
          ELSE fileState'[f] = "active"]_vars

NoDuplicate(seq) == \A i, j \in 1..Len(seq) : seq[i] = seq[j] => i = j

\* C15: for the rows of every file and every response and setting, a second
\* run of processAIResponse with the same response leaves the rows the first
\* run left, which hold at most one AI-info row and no tag relation twice;
\* and no reachable state holds more
C15_RunTwiceAsOnce ==
  \A f \in Files :
    /\ Len(aiInfo[f]) <= 1
    /\ NoDuplicate(tagRel[f])
    /\ \A resp \in Responses, detect \in BOOLEAN, mode \in Modes :
         LET once == RowsAfter(Row(f), resp, detect, mode)
         IN /\ RowsAfter(once, resp, detect, mode) = once
            /\ Len(once.aiInfo) <= 1
            /\ NoDuplicate(once.tagRel)

\* C15: a file has been run with a result that carries tags: its rows are
\* the ones a run with that result writes
C15_Witness ==
  \E f \in Files, resp \in Responses :
    /\ resp.kind = "result" /\ resp.tags # <<>>
    /\ status[f] = "done"
    /\ aiInfo[f] = <<parseAITaggingResult(resp)>>
    /\ tagRel[f] = resp.tags
    /\ RowsAfter(Row(f), resp, FALSE, "mark_only") = Row(f)

\* C16: a run in which the provider call fails counts against tries and
\* leaves the job in no terminal state while tries is below the threshold
C16_ProviderFailureRetryable ==
  [][\A f \in Files, resp \in Responses, detect \in BOOLEAN, mode \in Modes :
       (/\ resp.kind = "perr"
        /\ tries[f] < TriesThreshold
        /\ ExecutorRun(f, TRUE, resp, detect, mode))
       => /\ tries'[f] = tries[f] + 1
          /\ status'[f] \notin {"done", "skipped"}
          /\ status'[f] = "failed" => tries'[f] < TriesThreshold]_vars

\* C17: a run whose response is unsuccessful or cannot be parsed ends with
\* the job failed and tries incremented, never done
C17_BadResponseFails ==
  [][\A f \in Files, resp \in Responses, detect \in BOOLEAN, mode \in Modes :
       (/\ OutcomeOf(TRUE, resp, detect) = "bad"
        /\ ExecutorRun(f, TRUE, resp, detect, mode))
       => /\ status'[f] = "failed"
          /\ tries'[f] = tries[f] + 1]_vars

FailedWrite(f) ==
  \/ \E s \in Svcs : WorkerExecute(s, f, "bad")
  \/ \E c \in Callers : cfile[c] = f /\ ProcessSingleFile(c, "bad")

PickedUp(f) ==
  \E s \in Svcs :
    /\ WorkerPickup(s)
    /\ Head(queue[s]) = f
    /\ f \in inflight'[s]
    /\ ~stale'[f]

C21_DoneSkippedTerminal ==
  [][\A f \in Files :
       (status[f] \in {"done", "skipped"} /\ status'[f] # status[f])
       => /\ status'[f] = "pending"
          /\ \E c \in Callers : AddFileToQueue(c, f)]_vars

\* a worker of some instance has popped file f and not yet finished it
Held(f) == \E s \in Svcs : f \in inflight[s]

QueuedOrHeld(s, f) == s # 0 /\ (InQueue(queue[s], f) \/ f \in inflight[s])

\* C23: a call of AddFileToQueue for a file that is queued or in flight in
\* the running instance leaves the file's status as it was, and its
\* EnqueueUnique reports no error and leaves the queue and the in-flight set
\* as they were
C23_RepeatedEnqueueChangesNothing ==
  [][\A c \in Callers :
       /\ \A f \in Files :
            (AddFileToQueue(c, f) /\ QueuedOrHeld(globalTaggingService, f))
            => status'[f] = status[f]
       /\ (AddFileEnqueue(c) /\ QueuedOrHeld(csvc[c], cfile[c]) /\ ~stopped[csvc[c]])
          => /\ cpc'[c] = "idle"
             /\ queue' = queue /\ inflight' = inflight
             /\ status' = status]_vars

\* the instances whose worker pool is running: constructed and not stopped
RunningPools == {s \in Svcs : s <= created /\ ~stopped[s]}

\* C24: in every reachable state at most one constructed instance has a
\* running worker pool
C24_OneRunningService == Cardinality(RunningPools) <= 1

\* the maintenance loops of InitGlobalTaggingQueue: every initialisation that
\* constructs a service starts one stuck-job loop and one retention loop, both
\* ranging over a ticker that nothing stops, so each loop started is running
StuckLoops == created
RetentionLoops == created

\* C25: at most one stuck-job recovery loop and at most one retention-cleanup
\* loop are running, however often the service is initialised, disabled and
\* enabled again
C25_OneLoopEach == StuckLoops <= 1 /\ RetentionLoops <= 1

\* C26: the disable hook stops the service and releases the global instance,
\* and writes no job record: status, tries and heartbeat of every file are
\* after the hook what they were before it
C26_DisableKeepsJobs ==
  [][OnAiEnabled(FALSE) =>
       /\ status' = status /\ tries' = tries /\ stale' = stale
       /\ globalTaggingService' = 0
       /\ globalTaggingService # 0 => stopped'[globalTaggingService]]_vars

\* the feature is off, the service that ran is stopped and released, and a
\* job it had accepted is still pending in the store
C26_Witness ==
  /\ ~aiEnabled /\ globalTaggingService = 0
  /\ \E s \in Svcs : s <= created /\ stopped[s]
  /\ \E f \in Files : status[f] = "pending"

\* the feature has just been switched back on: the new service is global and
\* its startup goroutine has not run yet
JustEnabled ==
  /\ aiEnabled /\ globalTaggingService # 0
  /\ startup[globalTaggingService] = "recover"

C28_PropagationSparesOriginal ==
  /\ ExecutorReturn("ok") = "nil"
  /\ [][\A o \in Files :
          /\ (propagate'[o] /\ ~propagate[o]) => status'[o] = "done"
          /\ propagateAIToDuplicates(o) =>
               /\ status'[o] = status[o] /\ tries'[o] = tries[o]
               /\ Row(o)' = Row(o) /\ aiInfo'[o] = aiInfo[o]
               /\ tagRel'[o] = tagRel[o]]_vars

\* propagation has run for original 1: its duplicate is done with a copy of
\* the original's result, and the original is done with tries 0
C28_Witness ==
  /\ ~propagate[1] /\ status[1] = "done" /\ tries[1] = 0
  /\ aiInfo[1] # <<>>
  /\ original[2] = 1 /\ status[2] = "done"
  /\ aiInfo[2] = aiInfo[1]

\* C29: when a run in auto_delete mode marks a file for deletion on a parsed
\* result, the tags of that result are the file's tag associations afterwards
C29_DeletedFileKeepsTags ==
  [][\A f \in Files, resp \in Responses :
       ( /\ resp.kind = "result" /\ resp.tags # <<>>
         /\ fileState[f] = "active"
         /\ ExecutorRun(f, TRUE, resp, TRUE, "auto_delete")
         /\ fileState'[f] = "pending_deletion" )
       => tagRel'[f] = resp.tags]_vars

\* C30: UpdateConcurrency(n) with n <= 0 leaves the permit count of the pool
\* as it is, the ai_concurrency handler applies no value that is not
\* positive, and so the permit count of a service is always positive
C30_NonPositiveRejected ==
  /\ [](\A s \in Svcs : concurrency[s] > 0)
  /\ [][\A n \in Permits :
          (n <= 0 /\ (UpdateConcurrencyCall(n) \/ OnConcurrency(n)))
            => concurrency' = concurrency]_vars

\* the stored setting is 0 and the live service still has the permits it had
C30_Witness ==
  /\ aiConcurrency = 0
  /\ globalTaggingService # 0
  /\ concurrency[globalTaggingService] = MaxConcurrency

\* C31: when the database connection is closed at shutdown the Queue Service
\* has been stopped and no execution is in flight any more
C31_DrainedBeforeClose ==
  ~dbOpen => \A s \in Svcs : s <= created => stopped[s] /\ inflight[s] = {}

\* the step by which caller c leaves the EnqueueUnique call or the IsPaused
\* check of AddFileToQueue while its service is paused
DecidesPaused(c) ==
  /\ cpc[c] \in {"enqueue", "enqueue_err"}
  /\ cpc'[c] # cpc[c]
  /\ paused[csvc[c]]

\* C32 as stated: an AddFileToQueue that finds the service paused goes on to
\* the synchronous execution of its file
C32_PausedFallsBack ==
  [][\A c \in Callers :
       DecidesPaused(c) => cpc'[c] \in {"enqueue_err", "call"}]_vars

\* C32, amended: an AddFileToQueue that finds the service paused returns
\* without executing its file, whether EnqueueUnique accepted the id or
\* failed; the job keeps the status pending it was given
C32_PausedReturns ==
  [][\A c \in Callers :
       DecidesPaused(c) =>
         /\ cpc'[c] \in {"enqueue_err", "idle"}
         /\ cpc[c] = "enqueue_err" => cpc'[c] = "idle"
         /\ status'[cfile[c]] = status[cfile[c]]]_vars

\* C32, its case: the service is paused, every AddFileToQueue has returned,
\* and a job is pending that is neither queued nor held by a worker: its
\* EnqueueUnique failed and no execution followed
C32_Witness ==
  \E s \in Svcs, f \in Files :
    /\ s = globalTaggingService /\ paused[s] /\ ~stopped[s]
    /\ \A c \in Callers : cpc[c] = "idle"
    /\ status[f] = "pending" /\ ~QueuedOrHeld(s, f)

\* C33: when RecoverPendingOnStartup ends, every file it found pending and
\* wrote none has been handed to the live service, which marks it pending
\* again; none of them is left with status none
C33_RecoveryLosesNothing ==
  [][\A i \in Svcs :
       RecoverBatch(i) => \A f \in affectedIDs[i] : status'[f] = "pending"]_vars

\* the executions of file f in progress: the workers that hold it and the
\* callers inside ProcessSingleFile for it
RunsInProgress(f) ==
  Cardinality({s \in Svcs : f \in inflight[s]})
    + Cardinality({c \in Callers : cpc[c] = "call" /\ cfile[c] = f})

\* C34: at every instant at most one execution per file is in progress,
\* counting the workers and the synchronous fallback of AddFileToQueue
C34_OneRunPerFile == \A f \in Files : RunsInProgress(f) <= 1

\* the new service s is global and InitGlobalTaggingQueue has not yet reached
\* its Pause, with auto processing off
BeforePause(s) ==
  /\ ~autoProcessing
  /\ \E c \in Callers : cpc[c] = "hook_pause" /\ csvc[c] = s

\* C35: with auto processing off, no worker of the new service picks a job up
\* between the moment the service is made global and the moment it is paused
C35_NoPickupBeforePause ==
  [][\A s \in Svcs : BeforePause(s) => ~WorkerPickup(s)]_vars

\* C36: a run with content detection off never sets the nsfw flag, never
\* marks the file for review or deletion, whatever the response and the
\* handling; when it parses a result, flagged or not, the tags of the result
\* are saved and the job ends done
C36_DetectionOffTouchesNothing ==
  [][\A f \in Files, resp \in Responses, mode \in Modes :
       ExecutorRun(f, TRUE, resp, FALSE, mode)
       => /\ fileState'[f] = fileState[f]
          /\ reviewReason'[f] = reviewReason[f]
          /\ nsfw'[f] = nsfw[f]
          /\ resp.kind = "result"
             => /\ tagRel'[f] = processAndSaveTags(tagRel[f], resp.tags)
                /\ status'[f] = "done"]_vars

\* a file whose stored result is flagged is served unflagged with its tags
\* saved: it was analysed with content detection off
C36_Witness ==
  \E f \in Files :
    /\ status[f] = "done"
    /\ fileState[f] = "active" /\ ~nsfw[f]
    /\ aiInfo[f] # <<>> /\ aiInfo[f][1].isNSFW /\ aiInfo[f][1].score = 9
    /\ tagRel[f] = <<1, 2>>

\* the safety policy has acted on file o: it is flagged, quarantined or
\* marked for deletion
PolicyMarked(o) == nsfw[o] \/ fileState[o] # "active"

\* C37: when propagation writes a duplicate done and the policy has acted on
\* its original, the duplicate has the original's nsfw flag and the
\* original's review or deletion status afterwards
C37_DuplicateSharesOutcome ==
  [][\A o \in Files :
       (PolicyMarked(o) /\ propagateAIToDuplicates(o))
       => \A d \in Dups(o) :
            status'[d] = "done"
              => (nsfw'[d] = nsfw[o] /\ fileState'[d] = fileState[o])]_vars

\* C38: no duplicate file has two tag relations for the same tag
C38_NoTagTwice ==
  \A d \in Files : original[d] # 0 => NoDuplicate(tagRel[d])

\* the step in which caller c's approve or reject call commits and returns nil
ReviewSucceeds(c) ==
  /\ cpc[c] \in {"approve", "reject_soft", "reject_hard"}
  /\ cpc'[c] = "idle"

\* C39: a review decision that reports success finds the file pending review
\* when it commits and moves it to the status of its action (approve also
\* clears the nsfw flag); a call that fails writes no review log and leaves
\* the status as it is
C39_DecisionMovesFile ==
  [][\A c \in Callers :
       /\ ReviewSucceeds(c) =>
            /\ fileState[cfile[c]] = "pending_review"
            /\ fileState'[cfile[c]] = Writes(cpc[c])
            /\ cpc[c] = "approve" => ~nsfw'[cfile[c]]
       /\ (cpc[c] # "tx_failed" /\ cpc'[c] = "tx_failed") =>
            (reviewLog' = reviewLog /\ fileState' = fileState)]_vars

\* C40: a request that is not an admin request is never answered with a file
\* that is pending review
C40_QuarantineNotServed ==
  (/\ response # NoResponse
   /\ fileState[response.file] = "pending_review"
   /\ ~response.req.admin)
  => response.out # "file"

====
